---------------------------- MODULE Spec2Model ----------------------------
(***************************************************************************)
(* A model of the PostgreSQL web manager: the session registry, the login  *)
(* throttle and the authentication gate of middleware/auth.js, the two     *)
(* application entry files that mount the routers, and the route handlers  *)
(* of routes/database.js with their connections and generated SQL.         *)
(*                                                                         *)
(* Time is counted in quarter hours: Date.now() is the variable now, the   *)
(* 15 minute login window is 1 and the default 30 minute session timeout   *)
(* is 2.                                                                   *)
(***************************************************************************)
EXTENDS Integers, Sequences, FiniteSets, TLC

\* ---------------------------------------------------------------- bounds
MaxTime == 3

\* ------------------------------------------------------ program constants
\* AUTH_CONFIG.sessionTimeout, 30 * 60 * 1000 ms
SessionTimeout == 2
\* 15 * 60 * 1000 ms, the login window of the POST /login handler
LoginWindow == 1
\* attempts.count >= 5
MaxAttempts == 5

\* the values crypto.randomBytes(32).toString('hex') may return
Tokens == {1, 2}
\* req.ip: the client addresses that send logins
ClientA == "10.0.0.1"
ClientB == "10.0.0.2"
Clients == {ClientA, ClientB}
NoCookie == 0
Cookies == {NoCookie} \cup Tokens
Absent == [absent |-> TRUE]

\* AUTH_CONFIG.username and AUTH_CONFIG.password, and what a caller may send
AuthUsername == "admin"
AuthPassword == "secret"
Usernames == {"admin", "guest"}
Passwords == {"secret", "wrong"}

\* The two files that create the express app: src/index.js mounts the
\* database router alone, the other one mounts cookieParser, authRouter and
\* requireAuth in front of it.
Entries == {"index", "server"}

VARIABLES
    entry,          \* which entry file runs
    now,            \* Date.now()
    sessions,       \* the Map sessions of auth.js: token -> session
    issued,         \* tokens generateSessionId has returned so far
    loginAttempts,  \* global.loginAttempts: client address -> {count, lastAttempt}
    fails,          \* history: per client, the times of its failed logins since
                    \* its last successful one (the last MaxAttempts of them)
    windowStart,    \* history: per client, the time of the failure that set
                    \* its stored count to 1
    resp,           \* the response of the auth request handled last
    reqs,           \* the requests to the database router: slot -> request
    clients,        \* the pg Client objects made by getNewClient: id -> state
    sqlIn,          \* the inputs of the query under construction
    sqlOut,         \* the statements built from sqlIn
    call,           \* a helper or a catch block entered with plain values
    ret             \* what it returned or put in the response

authVars == <<entry, now, sessions, issued, loginAttempts, fails, windowStart, resp>>
dbVars == <<reqs, clients>>
sqlVars == <<sqlIn, sqlOut>>
callVars == <<call, ret>>
vars == <<entry, now, sessions, issued, loginAttempts, fails, windowStart, resp,
          reqs, clients, sqlIn, sqlOut, call, ret>>

\* ------------------------------------------------------- session registry
Restrict(f, S) == [x \in S |-> f[x]]
Put(f, k, v) == [x \in DOMAIN f \cup {k} |-> IF x = k THEN v ELSE f[x]]
Remove(f, k) == Restrict(f, DOMAIN f \ {k})

\* expiry measured from the creation of the session
ExpiredSinceCreation(s, t) == t - s.createdAt > SessionTimeout

\* Date.now() - session.lastActivity > AUTH_CONFIG.sessionTimeout
Expired(s, t) == t - s.lastActivity > SessionTimeout

\* a sweep that measures from the creation of the session
cleanupByCreation(reg, t) ==
    Restrict(reg, {k \in DOMAIN reg : ~ExpiredSinceCreation(reg[k], t)})

\* cleanupExpiredSessions(): deletes every session idle for more than the timeout
cleanupExpiredSessions(reg, t) ==
    Restrict(reg, {k \in DOMAIN reg : ~Expired(reg[k], t)})

\* generateSessionId(): crypto.randomBytes(32), a value not returned before
generateSessionId(used) == Tokens \ used

\* a session whose lastActivity is left at the epoch
newSessionAtEpoch(sessionId, userId, t) ==
    [id |-> sessionId, userId |-> userId, createdAt |-> t,
     lastActivity |-> 0, isValid |-> TRUE]

newSession(sessionId, userId, t) ==
    [id |-> sessionId, userId |-> userId, createdAt |-> t,
     lastActivity |-> t, isValid |-> TRUE]

\* createSession(userId) with sessionId the value of generateSessionId():
\* the registry after sessions.set and the sweep
createSession(reg, sessionId, userId, t) ==
    cleanupExpiredSessions(Put(reg, sessionId, newSession(sessionId, userId, t)), t)

\* validateSession(sessionId): the session it returns, or Absent for null
validateSessionResult(reg, sessionId, t) ==
    IF sessionId \notin DOMAIN reg \/ ~reg[sessionId].isValid THEN Absent
    ELSE IF Expired(reg[sessionId], t) THEN Absent
    ELSE [reg[sessionId] EXCEPT !.lastActivity = t]

\* validateSession(sessionId): the registry it leaves
validateSessionStore(reg, sessionId, t) ==
    IF sessionId \notin DOMAIN reg \/ ~reg[sessionId].isValid THEN reg
    ELSE IF Expired(reg[sessionId], t) THEN Remove(reg, sessionId)
    ELSE [reg EXCEPT ![sessionId].lastActivity = t]

\* a logout that leaves the session in the registry
destroySessionKept(reg, sessionId) == reg

\* a logout that empties the registry
destroySessionClear(reg, sessionId) == << >>

\* destroySession(sessionId)
destroySession(reg, sessionId) == Remove(reg, sessionId)

\* ------------------------------------------------------------ auth gate
\* redirectToLogin(req, res); acceptsJson stands for the whole test
\* req.path.startsWith('/api/') || accept includes 'application/json':
\* req.path is relative to the /api/db mount, so it starts with '/api/' for
\* none of the routes and the Accept header decides
redirectToLogin(acceptsJson) == IF acceptsJson THEN "401" ELSE "redirect_login"

\* requireAuth(req, res, next): "next" when the route handler is called,
\* otherwise the answer of redirectToLogin
requireAuthResult(reg, cookie, acceptsJson, t) ==
    IF cookie = NoCookie THEN redirectToLogin(acceptsJson)
    ELSE IF validateSessionResult(reg, cookie, t) = Absent
         THEN redirectToLogin(acceptsJson)
         ELSE "next"

\* a gate that clears the cookie on every refusal
requireAuthClearsAlways(reg, cookie, t) ==
    requireAuthResult(reg, cookie, FALSE, t) # "next"

\* requireAuth: whether it calls res.clearCookie('db_session')
requireAuthClears(reg, cookie, t) ==
    cookie # NoCookie /\ validateSessionResult(reg, cookie, t) = Absent

\* requireAuth: the registry it leaves
requireAuthStore(reg, cookie, t) ==
    IF cookie = NoCookie THEN reg ELSE validateSessionStore(reg, cookie, t)

\* ---------------------------------------------------------- login throttle
NoAttempts == [count |-> 0, lastAttempt |-> 0]

\* global.loginAttempts.get(clientIP) || { count: 0, lastAttempt: 0 }
attemptsOf(la, ip) == IF ip \in DOMAIN la THEN la[ip] ELSE NoAttempts

\* a reset as soon as the window's length has passed
resetAttemptsEarly(a, t) ==
    IF t - a.lastAttempt >= LoginWindow THEN [a EXCEPT !.count = 0] ELSE a

\* "Reset attempts if more than 15 minutes have passed"
resetAttempts(a, t) ==
    IF t - a.lastAttempt > LoginWindow THEN [a EXCEPT !.count = 0] ELSE a

\* a throttle that lets the sixth attempt through
tooManyAttemptsOffByOne(a) == a.count > MaxAttempts

\* attempts.count >= 5
tooManyAttempts(a) == a.count >= MaxAttempts

\* username === AUTH_CONFIG.username && password === AUTH_CONFIG.password
credentialsValid(username, password) ==
    username = AuthUsername /\ password = AuthPassword

\* a failure written over the count of a failure stored meanwhile
recordFailureLost(a, t) ==
    [count |-> IF a.count = 0 THEN 1 ELSE a.count, lastAttempt |-> t]

\* attempts.count++; attempts.lastAttempt = now
recordFailure(a, t) == [count |-> a.count + 1, lastAttempt |-> t]

\* history: the failure times still inside the window at t, at most MaxAttempts
RecentFails(seq, t) ==
    LET kept == SelectSeq(Append(seq, t), LAMBDA x : t - x <= LoginWindow)
    IN IF Len(kept) > MaxAttempts
       THEN SubSeq(kept, Len(kept) - MaxAttempts + 1, Len(kept))
       ELSE kept

Response(kind, cookie, set, cleared, subject, expiresAt) ==
    [kind |-> kind, cookie |-> cookie, set |-> set, cleared |-> cleared,
     subject |-> subject, expiresAt |-> expiresAt]

NoSubject == "-"

AuthInit ==
    /\ entry \in Entries
    /\ now = 0
    /\ sessions = << >>
    /\ issued = {}
    /\ loginAttempts = << >>
    /\ fails = [c \in Clients |-> << >>]
    /\ windowStart = [c \in Clients |-> 0]
    /\ resp = Response("none", NoCookie, NoCookie, FALSE, NoSubject, 0)

\* the clock advances
Tick ==
    /\ now < MaxTime
    /\ now' = now + 1
    /\ UNCHANGED <<entry, sessions, issued, loginAttempts, fails, windowStart, resp>>
    /\ UNCHANGED <<dbVars, sqlVars, callVars>>

\* a throttle that takes a blocked attempt for one more failure
LoginBlockedCounts(ip, username, password) ==
    /\ entry = "server"
    /\ tooManyAttempts(resetAttempts(attemptsOf(loginAttempts, ip), now))
    /\ loginAttempts' = Put(loginAttempts, ip,
                            [attemptsOf(loginAttempts, ip) EXCEPT !.lastAttempt = now])
    /\ resp' = Response("login_blocked", NoCookie, NoCookie, FALSE, NoSubject, 0)
    /\ UNCHANGED <<entry, now, sessions, issued, fails, windowStart>>
    /\ UNCHANGED <<dbVars, sqlVars, callVars>>

\* authRouter.post('/login'), a throttled client
LoginBlocked(ip, username, password) ==
    /\ entry = "server"
    /\ tooManyAttempts(resetAttempts(attemptsOf(loginAttempts, ip), now))
    /\ resp' = Response("login_blocked", NoCookie, NoCookie, FALSE, NoSubject, 0)
    /\ UNCHANGED <<entry, now, sessions, issued, loginAttempts, fails, windowStart>>
    /\ UNCHANGED <<dbVars, sqlVars, callVars>>

\* a successful login that empties the throttle map
LoginSuccessClearsAll(ip, username, password) ==
    /\ entry = "server"
    /\ ~tooManyAttempts(resetAttempts(attemptsOf(loginAttempts, ip), now))
    /\ credentialsValid(username, password)
    /\ \E sessionId \in generateSessionId(issued) :
          /\ sessions' = createSession(sessions, sessionId, username, now)
          /\ issued' = issued \cup {sessionId}
          /\ resp' = Response("login_ok", NoCookie, sessionId, FALSE, username, 0)
    /\ loginAttempts' = << >>
    /\ fails' = [fails EXCEPT ![ip] = << >>]
    /\ windowStart' = [windowStart EXCEPT ![ip] = 0]
    /\ UNCHANGED <<entry, now, dbVars, sqlVars, callVars>>

\* authRouter.post('/login'), valid credentials
LoginSuccess(ip, username, password) ==
    /\ entry = "server"
    /\ ~tooManyAttempts(resetAttempts(attemptsOf(loginAttempts, ip), now))
    /\ credentialsValid(username, password)
    /\ \E sessionId \in generateSessionId(issued) :
          /\ sessions' = createSession(sessions, sessionId, username, now)
          /\ issued' = issued \cup {sessionId}
          /\ resp' = Response("login_ok", NoCookie, sessionId, FALSE, username, 0)
    /\ loginAttempts' = Remove(loginAttempts, ip)
    /\ fails' = [fails EXCEPT ![ip] = << >>]
    /\ windowStart' = [windowStart EXCEPT ![ip] = 0]
    /\ UNCHANGED <<entry, now, dbVars, sqlVars, callVars>>

\* authRouter.post('/login'), wrong credentials
LoginFailure(ip, username, password) ==
    LET a == resetAttempts(attemptsOf(loginAttempts, ip), now) IN
    /\ entry = "server"
    /\ ~tooManyAttempts(a)
    /\ ~credentialsValid(username, password)
    /\ loginAttempts' = Put(loginAttempts, ip, recordFailure(a, now))
    /\ fails' = [fails EXCEPT ![ip] = RecentFails(fails[ip], now)]
    /\ windowStart' = [windowStart EXCEPT ![ip] = IF a.count = 0 THEN now ELSE @]
    /\ resp' = Response("login_failed", NoCookie, NoCookie, FALSE, NoSubject, 0)
    /\ UNCHANGED <<entry, now, sessions, issued, dbVars, sqlVars, callVars>>

\* authRouter.post('/login', ...)
LoginPost(ip, username, password) ==
    \/ LoginBlocked(ip, username, password)
    \/ LoginSuccess(ip, username, password)
    \/ LoginFailure(ip, username, password)

\* authRouter.post('/logout', requireAuth, ...)
Logout(cookie, acceptsJson) ==
    LET gate == requireAuthResult(sessions, cookie, acceptsJson, now)
        store == requireAuthStore(sessions, cookie, now) IN
    /\ entry = "server"
    /\ IF gate = "next"
       THEN /\ sessions' = destroySession(store, cookie)
            /\ resp' = Response("logged_out", cookie, NoCookie, TRUE,
                                store[cookie].userId, 0)
       ELSE /\ sessions' = store
            /\ resp' = Response(gate, cookie, NoCookie,
                                requireAuthClears(sessions, cookie, now), NoSubject, 0)
    /\ UNCHANGED <<entry, now, issued, loginAttempts, fails, windowStart, dbVars, sqlVars, callVars>>

\* a status read from the session as it was before the gate refreshed it
SessionStatusStale(cookie, acceptsJson) ==
    LET gate == requireAuthResult(sessions, cookie, acceptsJson, now)
        store == requireAuthStore(sessions, cookie, now) IN
    /\ entry = "server"
    /\ sessions' = store
    /\ IF gate = "next"
       THEN resp' = Response("session_status", cookie, NoCookie, FALSE,
                             sessions[cookie].userId,
                             sessions[cookie].lastActivity + SessionTimeout)
       ELSE resp' = Response(gate, cookie, NoCookie,
                             requireAuthClears(sessions, cookie, now), NoSubject, 0)
    /\ UNCHANGED <<entry, now, issued, loginAttempts, fails, windowStart, dbVars, sqlVars, callVars>>

\* authRouter.get('/session-status', requireAuth, ...)
SessionStatus(cookie, acceptsJson) ==
    LET gate == requireAuthResult(sessions, cookie, acceptsJson, now)
        store == requireAuthStore(sessions, cookie, now) IN
    /\ entry = "server"
    /\ sessions' = store
    /\ IF gate = "next"
       THEN resp' = Response("session_status", cookie, NoCookie, FALSE,
                             store[cookie].userId,
                             store[cookie].lastActivity + SessionTimeout)
       ELSE resp' = Response(gate, cookie, NoCookie,
                             requireAuthClears(sessions, cookie, now), NoSubject, 0)
    /\ UNCHANGED <<entry, now, issued, loginAttempts, fails, windowStart, dbVars, sqlVars, callVars>>

\* src/index.js mounts no authRouter: its 404 handler answers the auth routes
AuthRouteNotFound ==
    /\ entry = "index"
    /\ resp' = Response("404", NoCookie, NoCookie, FALSE, NoSubject, 0)
    /\ UNCHANGED <<entry, now, sessions, issued, loginAttempts, fails, windowStart>>
    /\ UNCHANGED <<dbVars, sqlVars, callVars>>

\* ------------------------------------------------------ identifier check
Letters == {"a", "t", "Z"}
Digits == {"1"}
IdentStart == Letters \cup {"_"}
IdentRest == Letters \cup Digits \cup {"_"}

\* /^[a-zA-Z_][a-zA-Z0-9_]*$/.test(name), a name being a sequence of characters
IsIdentifier(name) ==
    /\ Len(name) >= 1
    /\ name[1] \in IdentStart
    /\ \A i \in 2..Len(name) : name[i] \in IdentRest

\* !tableName || !/^[a-zA-Z_][a-zA-Z0-9_]*$/.test(tableName), negated
validTableName(tableName) == IsIdentifier(tableName)

\* ------------------------------------------------------- database router
\* the requests in flight at one time: two that overlap
ReqIds == {1, 2}

NoTableRoutes == {"root", "tables", "database_info", "health"}
TableRoutes == {"schema", "list", "view", "create", "update", "delete", "export"}
Routes == NoTableRoutes \cup TableRoutes \cup {"run_query"}

\* the :tableName a request may carry
TableInputs == {<<"t", "1">>, <<"t", ";">>}
\* req.body.query: missing or empty, SQL text, or a JSON value that is no string
QueryInputs == {"absent", "text", "nontext"}

Shape(route, tableName, search, query) ==
    [route |-> route, tableName |-> tableName, search |-> search, query |-> query]

Shapes ==
    {Shape(r, << >>, FALSE, "-") : r \in NoTableRoutes}
    \cup {Shape(r, n, FALSE, "-") : r \in TableRoutes, n \in TableInputs}
    \cup {Shape("list", n, TRUE, "-") : n \in TableInputs}
    \cup {Shape("run_query", << >>, FALSE, q) : q \in QueryInputs}

IdleReq ==
    [pc |-> "idle", route |-> "-", tableName |-> << >>, search |-> FALSE,
     query |-> "-", cookie |-> NoCookie, gate |-> "none", stmt |-> 0,
     client |-> 0, sent |-> 0, kind |-> "none", opened |-> 0, executed |-> 0,
     error |-> FALSE]

\* the awaited database round trips of a handler's try block after connect
StmtCount(q) ==
    CASE q.route = "root" -> 2
      [] q.route = "schema" -> 2
      [] q.route = "list" -> IF q.search THEN 2 ELSE 1
      [] q.route = "view" -> 4
      [] q.route \in {"update", "delete"} -> 2
      [] OTHER -> 1

\* the statements handed to client.query at round trip n: the list handler
\* ends with Promise.all of the data query and the count query
StmtsSent(q, n) == IF q.route = "list" /\ n = StmtCount(q) THEN 2 ELSE 1

\* res.status(..).json(..), res.send(..), res.render(..), res.redirect(..)
respond(q, kind) ==
    [q EXCEPT !.sent = @ + 1, !.kind = IF q.sent = 0 THEN kind ELSE @]

\* getNewClient(): a new Client, not yet connected
newClientId(cl) == Cardinality(DOMAIN cl) + 1
getNewClient(cl) == Put(cl, newClientId(cl), "new")

\* handleDatabaseError(err, res, context): one 500 response
handleDatabaseError(q) == respond(q, "500_db")

\* what a handler does before its try block
handlerStart(q) ==
    IF q.route \in TableRoutes /\ ~validTableName(q.tableName)
    THEN "400_invalid_table"
    ELSE IF q.route = "run_query" /\ q.query = "absent" THEN "400_missing_query"
    ELSE IF q.route = "run_query" /\ q.query = "nontext" THEN "throws"
    ELSE "connect"

\* query.trim() throws outside the try block when query is no string: the
\* async handler's promise rejects, and express either leaves the request
\* unanswered (express 4) or passes the error to the global error handler
\* (express 5)
RejectionOutcomes == {"unanswered", "500_unhandled"}

\* the catch block of a handler
catchBlock(q) ==
    CASE q.route \in {"root", "view"} -> [q EXCEPT !.error = TRUE]
      [] q.route = "health" -> respond(q, "500_health")
      [] q.route = "run_query" -> respond(q, "500_query")
      [] OTHER -> handleDatabaseError(q)

\* the finally block is entered: await client.end() is pending
enterFinally(q) == [q EXCEPT !.pc = "ending", !.stmt = 0]

\* the gate in front of the database router: requireAuth in the entry file
\* that mounts it, nothing in src/index.js
gateResult(cookie, acceptsJson) ==
    IF entry = "server"
    THEN requireAuthResult(sessions, cookie, acceptsJson, now)
    ELSE "next"

gateStore(cookie) ==
    IF entry = "server" THEN requireAuthStore(sessions, cookie, now) ELSE sessions

\* req.cookies?.db_session: src/index.js mounts no cookieParser
parsedCookie(cookie) == IF entry = "server" THEN cookie ELSE NoCookie

\* the handler has returned: its locals are gone, the response and the
\* client it used remain
complete(q) ==
    [q EXCEPT !.pc = "done", !.route = "-", !.tableName = << >>, !.search = FALSE,
              !.query = "-", !.cookie = NoCookie, !.stmt = 0, !.error = FALSE]

\* a handler that connects before it checks the request
refuseAfterConnect(q, kind) ==
    complete(respond([q EXCEPT !.opened = 1, !.executed = 1], kind))

\* return res.status(..).json(..) ahead of getNewClient(): the handler is over
refuse(q, kind) == complete(respond(q, kind))

\* a request arrives: the gate, then the handler up to its first await
Dispatch(r, shape, cookie, acceptsJson) ==
    LET gate == gateResult(cookie, acceptsJson)
        arrived == [IdleReq EXCEPT !.route = shape.route,
                                   !.tableName = shape.tableName,
                                   !.search = shape.search,
                                   !.query = shape.query,
                                   !.cookie = parsedCookie(cookie),
                                   !.gate = IF entry # "server" THEN "none"
                                            ELSE IF gate = "next" THEN "accepted"
                                            ELSE "rejected"]
        start == handlerStart(arrived)
    IN
    /\ reqs[r].pc = "idle"
    /\ \A o \in ReqIds : o < r => reqs[o].pc # "idle"
    /\ sessions' = gateStore(cookie)
    /\ IF gate # "next"
       THEN /\ reqs' = [reqs EXCEPT ![r] = refuse(arrived, gate)]
            /\ UNCHANGED clients
       ELSE IF start = "connect"
       THEN /\ clients' = [getNewClient(clients) EXCEPT ![newClientId(clients)] = "connecting"]
            /\ reqs' = [reqs EXCEPT ![r] = [arrived EXCEPT !.pc = "connecting",
                                                          !.client = newClientId(clients),
                                                          !.opened = 1]]
       ELSE IF start = "throws"
       THEN /\ \E out \in RejectionOutcomes :
                  reqs' = [reqs EXCEPT ![r] =
                              IF out = "unanswered"
                              THEN complete(arrived)
                              ELSE complete(respond(arrived, out))]
            /\ UNCHANGED clients
       ELSE /\ reqs' = [reqs EXCEPT ![r] = refuse(arrived, start)]
            /\ UNCHANGED clients
    /\ UNCHANGED <<entry, now, issued, loginAttempts, fails, windowStart, resp, sqlVars, callVars>>

\* await client.connect() settles
ConnectDone(r, ok) ==
    LET q == reqs[r] IN
    /\ q.pc = "connecting"
    /\ IF ok
       THEN /\ clients' = [clients EXCEPT ![q.client] = "open"]
            /\ reqs' = [reqs EXCEPT ![r] = [q EXCEPT !.pc = "querying", !.stmt = 1,
                                                    !.executed = StmtsSent(q, 1)]]
       ELSE /\ clients' = [clients EXCEPT ![q.client] = "failed"]
            /\ reqs' = [reqs EXCEPT ![r] = enterFinally(catchBlock(q))]
    /\ UNCHANGED <<authVars, sqlVars, callVars>>

\* early returns placed outside the try block, so that finally is skipped
afterQueryEarlyReturn(q, res) ==
    IF res = "error" THEN enterFinally(catchBlock(q))
    ELSE IF q.route \in {"update", "delete"} /\ res = "empty"
    THEN complete(respond(q, IF q.stmt = 1 THEN "400_no_pk" ELSE "404_not_found"))
    ELSE IF q.stmt < StmtCount(q)
    THEN [q EXCEPT !.stmt = @ + 1, !.executed = @ + StmtsSent(q, q.stmt + 1)]
    ELSE IF q.route \in {"root", "view"} THEN enterFinally(q)
    ELSE enterFinally(respond(q, "200"))

\* an UPDATE or DELETE that matched no row reported as a database failure
afterQueryEmptyIsError(q, res) ==
    IF res = "error" THEN enterFinally(catchBlock(q))
    ELSE IF q.route \in {"update", "delete"} /\ res = "empty"
    THEN enterFinally(IF q.stmt = 1 THEN respond(q, "400_no_pk") ELSE handleDatabaseError(q))
    ELSE IF q.stmt < StmtCount(q)
    THEN [q EXCEPT !.stmt = @ + 1, !.executed = @ + StmtsSent(q, q.stmt + 1)]
    ELSE IF q.route \in {"root", "view"} THEN enterFinally(q)
    ELSE enterFinally(respond(q, "200"))

\* the try block after the await of round trip q.stmt returned res
afterQuery(q, res) ==
    IF res = "error" THEN enterFinally(catchBlock(q))
    ELSE IF q.route \in {"update", "delete"} /\ res = "empty"
    THEN enterFinally(respond(q, IF q.stmt = 1 THEN "400_no_pk" ELSE "404_not_found"))
    ELSE IF q.stmt < StmtCount(q)
    THEN [q EXCEPT !.stmt = @ + 1, !.executed = @ + StmtsSent(q, q.stmt + 1)]
    ELSE IF q.route \in {"root", "view"} THEN enterFinally(q)
    ELSE enterFinally(respond(q, "200"))

\* what the database may answer to a round trip
QueryResults(q) ==
    IF q.route \in {"update", "delete"} THEN {"rows", "empty", "error"}
    ELSE {"rows", "error"}

\* a handler that validates the session again after every await
QueryDoneRevalidates(r, res) ==
    LET q == reqs[r] IN
    /\ q.pc = "querying"
    /\ res \in QueryResults(q)
    /\ reqs' = [reqs EXCEPT ![r] =
                   IF validateSessionResult(sessions, q.cookie, now) = Absent
                   THEN enterFinally(respond(q, "401"))
                   ELSE afterQuery(q, res)]
    /\ UNCHANGED <<authVars, clients, sqlVars, callVars>>

\* await client.query(..) settles
QueryDone(r, res) ==
    LET q == reqs[r] IN
    /\ q.pc = "querying"
    /\ res \in QueryResults(q)
    /\ reqs' = [reqs EXCEPT ![r] = afterQuery(q, res)]
    /\ UNCHANGED <<authVars, clients, sqlVars, callVars>>

\* what follows the finally block: the dashboard and the table view render
afterFinally(q) ==
    IF q.route \in {"root", "view"}
    THEN respond(q, IF q.error THEN "page_with_error" ELSE "page")
    ELSE q

\* await client.end() settles, and the handler runs to its end
EndDone(r) ==
    LET q == reqs[r] IN
    /\ q.pc = "ending"
    /\ clients' = [clients EXCEPT ![q.client] = "closed"]
    /\ reqs' = [reqs EXCEPT ![r] = complete(afterFinally(q))]
    /\ UNCHANGED <<authVars, sqlVars, callVars>>

DbNext ==
    \/ \E r \in ReqIds, shape \in Shapes, c \in Cookies, j \in BOOLEAN :
          Dispatch(r, shape, c, j)
    \/ \E r \in ReqIds, ok \in BOOLEAN : ConnectDone(r, ok)
    \/ \E r \in ReqIds, res \in {"rows", "empty", "error"} : QueryDone(r, res)
    \/ \E r \in ReqIds : EndDone(r)

NoSql == [op |-> "none"]

\* ---------------------------------------------------------- query builder
\* SQL text is a sequence of fragments: the template's own text, a string
\* interpolated between double quotes ("${name}"), a string interpolated
\* bare (${word}) and a placeholder ($n). The bound values are a sequence.
Text(s) == [k |-> "text", v |-> s]
Name(n) == [k |-> "name", v |-> n]
Word(w) == [k |-> "word", v |-> w]
Param(i) == [k |-> "param", v |-> i]
Statement(text, params) == [text |-> text, params |-> params]

RECURSIVE Flatten(_)
Flatten(seqs) == IF seqs = << >> THEN << >> ELSE Head(seqs) \o Flatten(Tail(seqs))

\* items.join(sep), every item a sequence of fragments
Join(items, sep) ==
    Flatten([i \in 1..Len(items) |-> IF i = 1 THEN items[i] ELSE <<sep>> \o items[i]])

\* values: a query-string or body value is a string, a missing one is
\* Missing; numbers are Num(n) and NaN
Str(x) == [t |-> "string", s |-> x]
Num(n) == [t |-> "number", n |-> n]
NaN == [t |-> "NaN"]
Missing == [t |-> "undefined"]
\* a string holding the decimal numeral of n, and one holding no numeral
Numeral(n) == [t |-> "string", numeral |-> n]
NoName == << >>

\* parseInt(x): the number of a numeral, the number itself, NaN otherwise
parseInt(x) ==
    IF x.t = "number" THEN x
    ELSE IF x.t = "string" /\ "numeral" \in DOMAIN x THEN Num(x.numeral)
    ELSE NaN
Times(a, b) == IF a = NaN \/ b = NaN THEN NaN ELSE Num(a.n * b.n)
Minus(a, b) == IF a = NaN \/ b = NaN THEN NaN ELSE Num(a.n - b.n)

\* const { page = 1, limit = 100, ..., sortOrder = 'asc' } = req.query
DefaultPage == 1
DefaultLimit == 100
orDefault(x, d) == IF x = Missing THEN d ELSE x

\* the primary key lookup of update and delete
pkLookup(tableName) ==
    Statement(<<Text("SELECT a.attname ... WHERE i.indrelid = "), Param(1),
                Text("::regclass AND i.indisprimary LIMIT 1")>>,
              <<Str(tableName)>>)

\* the column lookup of the list handler's search
columnLookup(tableName) ==
    Statement(<<Text("SELECT column_name, data_type ... WHERE table_name = "),
                Param(1), Text(" AND table_schema = 'public'")>>,
              <<Str(tableName)>>)

\* router.post('/data/:tableName'): the INSERT of the keys and values of req.body
insertQuery(in) ==
    Statement(
        <<Text("INSERT INTO "), Name(in.tableName), Text(" (")>>
        \o Join([i \in 1..Len(in.keys) |-> <<Name(in.keys[i])>>], Text(", "))
        \o <<Text(") VALUES (")>>
        \o Join([i \in 1..Len(in.vals) |-> <<Param(i)>>], Text(", "))
        \o <<Text(") RETURNING *")>>,
        in.vals)

\* router.put('/data/:tableName/:id'): the UPDATE by primary key
updateQuery(in) ==
    Statement(
        <<Text("UPDATE "), Name(in.tableName), Text(" SET ")>>
        \o Join([i \in 1..Len(in.keys) |-> <<Name(in.keys[i]), Text(" = "), Param(i)>>],
                Text(", "))
        \o <<Text(" WHERE "), Name(in.pkColumn), Text(" = "),
             Param(Len(in.vals) + 1), Text(" RETURNING *")>>,
        in.vals \o <<in.id>>)

\* router.delete('/data/:tableName/:id'): the DELETE by primary key
deleteQuery(in) ==
    Statement(
        <<Text("DELETE FROM "), Name(in.tableName), Text(" WHERE "),
          Name(in.pkColumn), Text(" = "), Param(1), Text(" RETURNING *")>>,
        <<in.id>>)

\* router.get('/export/:tableName')
exportQuery(in) ==
    Statement(<<Text("SELECT * FROM "), Name(in.tableName)>>, << >>)

\* router.get('/data/:tableName'): the search condition over the text columns
searchCondition(in) ==
    Join([i \in 1..Len(in.textColumns) |->
             <<Name(in.textColumns[i]), Text("::text ILIKE "), Param(i)>>],
         Text(" OR "))

\* whether the list handler adds a WHERE clause
searches(in) == in.search # Missing /\ Len(in.textColumns) > 0

whereClause(in) ==
    IF searches(in)
    THEN <<Text(" WHERE (")>> \o searchCondition(in) \o <<Text(")")>>
    ELSE << >>

\* queryParams after the search: one `%${search}%` per text column
searchParams(in) ==
    IF searches(in) THEN [i \in 1..Len(in.textColumns) |-> [t |-> "string", like |-> in.search.s]]
    ELSE << >>

\* sortBy && /^[a-zA-Z_][a-zA-Z0-9_]*$/.test(sortBy)
sorts(in) == in.sortBy # NoName /\ IsIdentifier(in.sortBy)

\* ['asc', 'desc'].includes(sortOrder.toLowerCase()) ? sortOrder : 'asc',
\* upper-cased; sortOrder is given in lower case here
orderWord(sortOrder) ==
    IF orDefault(sortOrder, Str("asc")) \in {Str("asc"), Str("desc")}
    THEN (IF orDefault(sortOrder, Str("asc")) = Str("desc") THEN "DESC" ELSE "ASC")
    ELSE "ASC"

orderClause(in) ==
    IF sorts(in)
    THEN <<Text(" ORDER BY "), Name(in.sortBy), Text(" "), Word(orderWord(in.sortOrder))>>
    ELSE << >>

\* an offset that skips the requested page as well
listOffsetOnePageOn(in) ==
    Times(parseInt(orDefault(in.page, Num(DefaultPage))),
          parseInt(orDefault(in.limit, Num(DefaultLimit))))

listLimit(in) == parseInt(orDefault(in.limit, Num(DefaultLimit)))
\* (parseInt(page) - 1) * parseInt(limit)
listOffset(in) ==
    Times(Minus(parseInt(orDefault(in.page, Num(DefaultPage))), Num(1)), listLimit(in))

\* the data query of the list handler
listDataQuery(in) ==
    LET k == Len(searchParams(in)) IN
    Statement(
        <<Text("SELECT * FROM "), Name(in.tableName)>> \o whereClause(in)
        \o orderClause(in)
        \o <<Text(" LIMIT "), Param(k + 1), Text(" OFFSET "), Param(k + 2)>>,
        searchParams(in) \o <<listLimit(in), listOffset(in)>>)

\* a count of the whole table, whatever the search
listCountQueryUnfiltered(in) ==
    Statement(<<Text("SELECT COUNT(*) FROM "), Name(in.tableName)>>, << >>)

\* the count query of the list handler
listCountQuery(in) ==
    Statement(<<Text("SELECT COUNT(*) FROM "), Name(in.tableName)>> \o whereClause(in),
              searchParams(in))

\* the statements a handler hands to client.query, in order, when every
\* lookup succeeds; none when the table name is refused
buildStatements(in) ==
    IF ~validTableName(in.tableName) THEN << >>
    ELSE CASE in.op = "create" -> <<insertQuery(in)>>
           [] in.op = "update" ->
                IF in.pkColumn = NoName THEN <<pkLookup(in.tableName)>>
                ELSE <<pkLookup(in.tableName), updateQuery(in)>>
           [] in.op = "delete" ->
                IF in.pkColumn = NoName THEN <<pkLookup(in.tableName)>>
                ELSE <<pkLookup(in.tableName), deleteQuery(in)>>
           [] in.op = "export" -> <<exportQuery(in)>>
           [] in.op = "list" ->
                (IF in.search # Missing THEN <<columnLookup(in.tableName)>> ELSE << >>)
                \o <<listDataQuery(in), listCountQuery(in)>>

\* the response status decided before any statement is built
buildStatus(in) == IF ~validTableName(in.tableName) THEN 400 ELSE 200

\* what requests may carry
NameInputs == {<<"t">>, <<"_", "1">>, <<"1", "t">>, <<"t", ";">>, <<"a", "\"">>}
KeyInputs == {<< >>} \cup {<<n>> : n \in NameInputs}
              \cup {<<<<"t">>, n>> : n \in NameInputs}
ValueInputs == {Str("v"), Str("x' OR 1=1")}
\* the column names the catalog may hold
CatalogNames == {<<"t">>, <<"_", "1">>}
\* the columns of the table's primary key index: none, one, or two
PrimaryKeys ==
    {<< >>} \cup {<<n>> : n \in CatalogNames} \cup {<<<<"t">>, <<"_", "1">>>>}
\* pkResult.rows[0].column_name: the lookup ends in LIMIT 1 with no ORDER BY,
\* so it returns one of the key's columns, or no row
pkRows(primaryKey) ==
    IF primaryKey = << >> THEN {NoName}
    ELSE {primaryKey[i] : i \in 1..Len(primaryKey)}
PageInputs == {Missing, Str("abc"), Numeral(0), Numeral(1), Numeral(3)}
LimitInputs == {Missing, Str("abc"), Numeral(0), Numeral(10)}

\* what a handler reads of the request and of the catalog
SqlInput(op, tableName, keys, vals, id, primaryKey, pkColumn, search, textColumns, sortBy, sortOrder, page, limit) ==
    [op |-> op, tableName |-> tableName, keys |-> keys, vals |-> vals, id |-> id,
     primaryKey |-> primaryKey, pkColumn |-> pkColumn, search |-> search, textColumns |-> textColumns,
     sortBy |-> sortBy, sortOrder |-> sortOrder, page |-> page, limit |-> limit]

RowInputs(op) ==
    UNION {
        {SqlInput(op, t, keys, [i \in 1..Len(keys) |-> v], id, key, pk, Missing, << >>,
                  NoName, Missing, Missing, Missing) :
            t \in NameInputs, keys \in KeyInputs, v \in ValueInputs, id \in ValueInputs,
            pk \in pkRows(key)} :
        key \in (IF op = "update" THEN PrimaryKeys ELSE {<< >>})}

KeyedInputs(op) ==
    UNION {
        {SqlInput(op, t, << >>, << >>, id, key, pk, Missing, << >>,
                  NoName, Missing, Missing, Missing) :
            t \in NameInputs, id \in ValueInputs, pk \in pkRows(key)} :
        key \in (IF op = "delete" THEN PrimaryKeys ELSE {<< >>})}

ListInputs ==
    {SqlInput("list", t, << >>, << >>, Missing, << >>, NoName, s, cols, sb, so, pg, lm) :
        t \in {<<"t">>, <<"t", ";">>}, s \in {Missing} \cup ValueInputs,
        cols \in {<< >>, <<<<"t">>>>, <<<<"t">>, <<"_", "1">>>>},
        sb \in {NoName, <<"t">>, <<"t", ";">>},
        so \in {Missing, Str("desc"), Str("up")},
        pg \in PageInputs, lm \in LimitInputs}

SqlInputs ==
    RowInputs("create") \cup RowInputs("update") \cup KeyedInputs("delete")
    \cup KeyedInputs("export") \cup ListInputs

NotBuilt == [status |-> 0, statements |-> << >>]

\* a handler builds its statements from the request
BuildQuery ==
    /\ sqlIn # NoSql
    /\ sqlOut = NotBuilt
    /\ sqlOut' = [status |-> buildStatus(sqlIn), statements |-> buildStatements(sqlIn)]
    /\ UNCHANGED <<sqlIn, authVars, dbVars, callVars>>

SqlNext == BuildQuery

\* -------------------------------------------- helpers called with values
NoCall == [fn |-> "none"]
NotReturned == [done |-> FALSE]
CallIdle ==
    /\ call = NoCall
    /\ ret = NotReturned

\* ------------------------------------------------------- error responses
\* process.env.NODE_ENV
NodeEnvs == {"development", "production", "unset"}

\* an error thrown by the pg driver: err.code and err.message
Err(code, message) == [code |-> code, message |-> message]
\* the database call returned
NoError == Err("none", "none")
DriverErrors ==
    {Err("42P01", "relation \"t\" does not exist"),
     Err("23505", "duplicate key value violates unique constraint \"t_pkey\""),
     Err("42601", "syntax error at or near \"WHERE\""),
     Err("28P01", "password authentication failed for user \"postgres\""),
     Err("ECONNREFUSED", "connect ECONNREFUSED 127.0.0.1:5432"),
     Err("57014", "canceling statement due to statement timeout")}

\* the keys of errorMessages
MappedCodes ==
    {"42P01", "42703", "23505", "23502", "23503", "42601", "42P07",
     "ECONNREFUSED", "ENOTFOUND", "28P01"}

\* errorMessages[code]
errorMessages(code) ==
    CASE code = "42P01" -> "Table not found"
      [] code = "42703" -> "Column not found"
      [] code = "23505" -> "Duplicate key violation"
      [] code = "23502" -> "Not null violation"
      [] code = "23503" -> "Foreign key violation"
      [] code = "42601" -> "Syntax error in SQL"
      [] code = "42P07" -> "Table already exists"
      [] code = "ECONNREFUSED" -> "Database connection refused"
      [] code = "ENOTFOUND" -> "Database host not found"
      [] code = "28P01" -> "Authentication failed"

\* errorMessages[err.code] || 'Database operation failed'
userFriendlyMessage(code) ==
    IF code \in MappedCodes THEN errorMessages(code) ELSE "Database operation failed"

\* a property whose value is undefined
Undefined == "undefined"

\* handleDatabaseError(err, res, context): status and body of the response
handleDatabaseErrorBody(err, nodeEnv) ==
    [http |-> "500",
     error |-> userFriendlyMessage(err.code),
     details |-> IF nodeEnv = "development" THEN err.message ELSE Undefined,
     code |-> err.code]

\* the catch block of router.post('/run-query')
runQueryCatchBody(err, warnings) ==
    [http |-> "500",
     error |-> "Query execution failed",
     details |-> err.message,
     code |-> err.code,
     warnings |-> warnings]

\* the catch block of router.get('/health')
healthCatchBody(err) ==
    [http |-> "500", status |-> "unhealthy", database |-> "disconnected",
     error |-> err.message]

\* router.get('/view/:tableName'): error = err.message, rendered in db/table
viewErrorPage(err) == [http |-> "200", view |-> "db/table", error |-> err.message]

\* router.get('/'): error = 'Failed to fetch database information.'
dashboardErrorPage(err) ==
    [http |-> "200", view |-> "db/index",
     error |-> "Failed to fetch database information."]

\* what the catch block of a route puts in the response
catchResponse(route, err, nodeEnv, warnings) ==
    CASE route = "root" -> dashboardErrorPage(err)
      [] route = "view" -> viewErrorPage(err)
      [] route = "health" -> healthCatchBody(err)
      [] route = "run_query" -> runQueryCatchBody(err, warnings)
      [] OTHER -> handleDatabaseErrorBody(err, nodeEnv)

\* the strings a response carries
textsOf(body) ==
    {body[f] : f \in DOMAIN body \ {"warnings"}}
    \cup (IF "warnings" \in DOMAIN body
          THEN {body.warnings[i] : i \in 1..Len(body.warnings)}
          ELSE {})

CatchCalls ==
    {[fn |-> "catch", route |-> r, err |-> e, nodeEnv |-> m, warnings |-> << >>] :
        r \in Routes, e \in DriverErrors, m \in NodeEnvs}

Returned(v) == [done |-> TRUE, value |-> v]

\* a database call of a handler throws: its catch block answers
CatchError ==
    /\ call.fn = "catch"
    /\ ret = NotReturned
    /\ ret' = Returned(catchResponse(call.route, call.err, call.nodeEnv, call.warnings))
    /\ UNCHANGED <<call, authVars, dbVars, sqlVars>>

\* ------------------------------------------------------- ad-hoc queries
\* SQL text is a sequence of words and single blanks
Blank == " "

\* String.prototype.toLowerCase, word by word
toLowerCase(text) ==
    [i \in 1..Len(text) |->
        CASE text[i] = "DROP" -> "drop"
          [] text[i] = "TABLE" -> "table"
          [] text[i] = "UPDATE" -> "update"
          [] text[i] = "WHERE" -> "where"
          [] OTHER -> text[i]]

\* String.prototype.trim
RECURSIVE trimStart(_)
trimStart(text) ==
    IF text # << >> /\ Head(text) = Blank THEN trimStart(Tail(text)) ELSE text
RECURSIVE trimEnd(_)
trimEnd(text) ==
    IF text # << >> /\ text[Len(text)] = Blank
    THEN trimEnd(SubSeq(text, 1, Len(text) - 1))
    ELSE text
trim(text) == trimEnd(trimStart(text))

\* String.prototype.includes
includes(text, phrase) ==
    \E i \in 1..(Len(text) - Len(phrase) + 1) :
        SubSeq(text, i, i + Len(phrase) - 1) = phrase

WarnDestructive == "Destructive operation detected - proceed with caution"
WarnDelete == "DELETE without WHERE clause - this will delete all rows"
WarnUpdate == "UPDATE without WHERE clause - this will update all rows"

\* const trimmedQuery = query.trim().toLowerCase()
trimmedQuery(query) == toLowerCase(trim(query))

\* the warnings pushed by the three tests on trimmedQuery
queryWarnings(query) ==
    LET t == trimmedQuery(query) IN
    (IF includes(t, <<"drop", Blank, "table">>) \/ includes(t, <<"drop", Blank, "database">>)
     THEN <<WarnDestructive>> ELSE << >>)
    \o (IF includes(t, <<"delete", Blank, "from">>) /\ ~includes(t, <<"where">>)
        THEN <<WarnDelete>> ELSE << >>)
    \o (IF includes(t, <<"update">>) /\ ~includes(t, <<"where">>)
        THEN <<WarnUpdate>> ELSE << >>)

\* a handler that executes the text it inspected
executedTrimmed(query) == trimmedQuery(query)

\* client.query(query): the text handed to the database
executedText(query) == query

\* res.json({ message: 'Query executed successfully', ...resultData })
runQueryOkBody(warnings) ==
    [http |-> "200", message |-> "Query executed successfully", warnings |-> warnings]

\* router.post('/run-query') for a query that is a non-empty string: the text
\* it executes and the response, the database answering outcome
runQuery(query, outcome) ==
    [sent |-> executedText(query),
     body |-> IF outcome = NoError
              THEN runQueryOkBody(queryWarnings(query))
              ELSE runQueryCatchBody(outcome, queryWarnings(query))]

QueryTexts ==
    {<<"select", Blank, "1">>,
     <<Blank>>,
     <<Blank, "DROP", Blank, "TABLE", Blank, "t">>,
     <<"drop", Blank, Blank, "table", Blank, "t">>,
     <<"drop", Blank, "database", Blank, "d">>,
     <<"delete", Blank, "from", Blank, "t">>,
     <<"delete", Blank, "from", Blank, "t", Blank, "WHERE", Blank, "x">>,
     <<"UPDATE", Blank, "t", Blank>>,
     <<"drop", Blank, "table", Blank, "t", ";", "delete", Blank, "from", Blank, "update">>}

RunQueryCalls ==
    {[fn |-> "run_query", query |-> q, outcome |-> o] :
        q \in QueryTexts, o \in {NoError} \cup DriverErrors}

\* router.post('/run-query', ...) with a query text
RunQuery ==
    /\ call.fn = "run_query"
    /\ ret = NotReturned
    /\ ret' = Returned(runQuery(call.query, call.outcome))
    /\ UNCHANGED <<call, authVars, dbVars, sqlVars>>

\* ------------------------------------------------------------ pagination
Infinity == [t |-> "Infinity"]

\* Math.ceil(a / b) for a >= 0 and b >= 0
CeilOfQuotient(a, b) ==
    IF a = NaN \/ b = NaN THEN NaN
    ELSE IF b.n = 0 THEN (IF a.n = 0 THEN NaN ELSE Infinity)
    ELSE Num(-((-a.n) \div b.n))

\* the pagination object of the list response; countResult.rows[0].count is
\* the numeral the driver returns for COUNT(*)
listPagination(in, count) ==
    [currentPage |-> parseInt(orDefault(in.page, Num(DefaultPage))),
     limit |-> listLimit(in),
     totalRows |-> parseInt(count),
     totalPages |-> CeilOfQuotient(parseInt(count), listLimit(in))]

\* router.get('/data/:tableName') once the column lookup is done: the data
\* query it executes and the pagination it reports
listPage(in, count) ==
    [data |-> listDataQuery(in), pagination |-> listPagination(in, count)]

CountInputs == {Numeral(0), Numeral(1), Numeral(20), Numeral(21), Numeral(101)}

ListPageCalls ==
    {[fn |-> "list_page",
      in |-> SqlInput("list", <<"t">>, << >>, << >>, Missing, << >>, NoName, s, cols,
                      NoName, Missing, pg, lm),
      count |-> n] :
        s \in {Missing, Str("v")}, cols \in {<< >>, <<<<"t">>, <<"_", "1">>>>},
        pg \in PageInputs, lm \in LimitInputs, n \in CountInputs}

\* router.get('/data/:tableName', ...): pagination
ListPage ==
    /\ call.fn = "list_page"
    /\ ret = NotReturned
    /\ ret' = Returned(listPage(call.in, call.count))
    /\ UNCHANGED <<call, authVars, dbVars, sqlVars>>

\* ------------------------------------------------- the gate's refusals
\* a URL is a sequence of its pieces: words and the reserved characters
\* encodeURIComponent(url), piece by piece
encodeURIComponent(url) ==
    [i \in 1..Len(url) |->
        CASE url[i] = "/" -> "%2F"
          [] url[i] = "?" -> "%3F"
          [] url[i] = "=" -> "%3D"
          [] url[i] = "&" -> "%26"
          [] url[i] = "%2F" -> "%252F"
          [] OTHER -> url[i]]

\* the decoding express applies to a query parameter
decodeURIComponent(text) ==
    [i \in 1..Len(text) |->
        CASE text[i] = "%2F" -> "/"
          [] text[i] = "%3F" -> "?"
          [] text[i] = "%3D" -> "="
          [] text[i] = "%26" -> "&"
          [] text[i] = "%252F" -> "%2F"
          [] OTHER -> text[i]]

\* `/api/db/login?redirect=${encodeURIComponent(req.originalUrl)}`
loginLocation(originalUrl) ==
    <<"/", "api", "/", "db", "/", "login", "?", "redirect", "=">>
    \o encodeURIComponent(originalUrl)

\* req.query.redirect as the login page reads it from that location
redirectParameter(location) ==
    decodeURIComponent(SubSeq(location, 10, Len(location)))

NoLocation == << >>

\* req.path under the mount at /api/db: the URL without the mount path and
\* without the query string
RECURSIVE beforeQuery(_)
beforeQuery(url) ==
    IF url = << >> \/ Head(url) = "?" THEN << >>
    ELSE <<Head(url)>> \o beforeQuery(Tail(url))
reqPath(originalUrl) ==
    LET rest == beforeQuery(SubSeq(originalUrl, 5, Len(originalUrl)))
    IN IF rest = << >> THEN <<"/">> ELSE rest

\* req.path.startsWith('/api/') || req.headers.accept?.includes('application/json')
expectsJson(originalUrl, acceptsJson) ==
    \/ ( /\ Len(reqPath(originalUrl)) >= 3
         /\ SubSeq(reqPath(originalUrl), 1, 3) = <<"/", "api", "/">> )
    \/ acceptsJson

\* requireAuth(req, res, next) on a request: whether next() is called, the
\* response otherwise, and the registry it leaves
requireAuth(reg, cookie, acceptsJson, originalUrl, t) ==
    LET outcome == requireAuthResult(reg, cookie,
                                     expectsJson(originalUrl, acceptsJson), t) IN
    [outcome |-> outcome,
     cleared |-> requireAuthClears(reg, cookie, t),
     location |-> IF outcome = "redirect_login" THEN loginLocation(originalUrl)
                  ELSE NoLocation,
     sessions |-> requireAuthStore(reg, cookie, t)]

OriginalUrls ==
    {<<"/", "api", "/", "db">>,
     <<"/", "api", "/", "db", "/", "tables">>,
     <<"/", "api", "/", "db", "/", "api", "/", "tables">>,
     <<"/", "api", "/", "db", "/", "data", "/", "t", "?", "page", "=", "3", "&",
       "search", "=", "a", "%2F", "b">>}

\* the registries a request may meet: empty, or the session of a login at 0
GateRegistries == {<< >>, [k \in {1} |-> newSession(1, AuthUsername, 0)]}

RequireAuthCalls ==
    {[fn |-> "require_auth", sessions |-> reg, cookie |-> c, acceptsJson |-> j,
      originalUrl |-> u, now |-> t] :
        reg \in GateRegistries, c \in Cookies, j \in BOOLEAN, u \in OriginalUrls,
        t \in {0, SessionTimeout, SessionTimeout + 1}}

\* requireAuth runs in front of a protected route
RequireAuth ==
    /\ call.fn = "require_auth"
    /\ ret = NotReturned
    /\ ret' = Returned(requireAuth(call.sessions, call.cookie, call.acceptsJson,
                                   call.originalUrl, call.now))
    /\ UNCHANGED <<call, authVars, dbVars, sqlVars>>

\* ------------------------------------------------------------ CSV export
\* a string is a sequence of characters here; a cell of a result row is null,
\* a number, a string, or an object with its JSON text
Null == [t |-> "null"]
Object(json) == [t |-> "object", json |-> json]
Quote == "\""
Comma == ","

\* String(n) for a number n >= 0
RECURSIVE numberToString(_)
numberToString(n) ==
    LET digit == <<"0", "1", "2", "3", "4", "5", "6", "7", "8", "9">>[(n % 10) + 1]
    IN IF n < 10 THEN <<digit>> ELSE numberToString(n \div 10) \o <<digit>>

\* typeof value === 'object' ? JSON.stringify(value) : String(value)
stringValue(value) ==
    CASE value.t = "object" -> value.json
      [] value.t = "number" -> numberToString(value.n)
      [] OTHER -> value.s

\* stringValue.replace(/"/g, '""')
doubleQuotes(chars) ==
    Flatten([i \in 1..Len(chars) |->
                IF chars[i] = Quote THEN <<Quote, Quote>> ELSE <<chars[i]>>])

\* the field of one cell
csvField(value) ==
    IF value = Null \/ value = Missing THEN << >>
    ELSE <<Quote>> \o doubleQuotes(stringValue(value)) \o <<Quote>>

\* values.join(',') and Object.keys(result.rows[0]).join(','), without '\n'
csvLine(fields) == Join(fields, Comma)

\* the lines of the csv text the export sends: result.rows[i] holds the
\* cells of row i in the order of columns
exportCsv(columns, rows) ==
    IF Len(rows) > 0
    THEN <<csvLine(columns)>>
         \o [i \in 1..Len(rows) |->
                csvLine([j \in 1..Len(rows[i]) |-> csvField(rows[i][j])])]
    ELSE << >>

CsvColumns == <<<<"i", "d">>, <<"n", "a", "m", "e">>>>
CsvCells ==
    {Null, Num(1), Num(42), Str(<<"O", "'", "B", Comma, " ", "A">>),
     Str(<<"a", Quote, "b", Quote>>), Str(<< >>),
     Object(<<"{", Quote, "k", Quote, ":", "1", "}">>)}
CsvRows == {<<a, b>> : a \in CsvCells, b \in CsvCells}
CsvResults ==
    {<< >>} \cup {<<r>> : r \in CsvRows}
    \cup {<<r, <<Num(1), Null>>>> : r \in CsvRows}

ExportCsvCalls ==
    {[fn |-> "export_csv", columns |-> CsvColumns, rows |-> rows] : rows \in CsvResults}

\* router.get('/export/:tableName', ...) with format csv, the query done
ExportCsv ==
    /\ call.fn = "export_csv"
    /\ ret = NotReturned
    /\ ret' = Returned(exportCsv(call.columns, call.rows))
    /\ UNCHANGED <<call, authVars, dbVars, sqlVars>>

\* ------------------------------------------- the registry's operations
\* the sessions a registry may hold for a token at time t: created at c,
\* last validated at a, c <= a <= t
SessionsAt(k, t) ==
    {[id |-> k, userId |-> AuthUsername, createdAt |-> c, lastActivity |-> a,
      isValid |-> TRUE] : c \in {x \in 0..1 : x <= t}, a \in 0..t}

RegistriesAt(t) ==
    UNION {[S -> UNION {SessionsAt(k, t) : k \in S}] : S \in SUBSET Tokens}

\* the registries the code can reach: the session stored under k has id k
ReachableRegistriesAt(t) ==
    {reg \in RegistriesAt(t) :
        \A k \in DOMAIN reg : reg[k].id = k /\ reg[k].createdAt <= reg[k].lastActivity}

\* a value of generateSessionId() that is in no registry above
FreshToken == 3

CreateSessionCalls ==
    UNION {{[fn |-> "create_session", sessions |-> reg, sessionId |-> FreshToken,
             userId |-> u, now |-> t] :
               reg \in ReachableRegistriesAt(t), u \in Usernames} :
           t \in 0..(SessionTimeout + 2)}

\* createSession(userId)
CreateSession ==
    /\ call.fn = "create_session"
    /\ ret = NotReturned
    /\ ret' = Returned(createSession(call.sessions, call.sessionId, call.userId, call.now))
    /\ UNCHANGED <<call, authVars, dbVars, sqlVars>>

DestroySessionCalls ==
    {[fn |-> "destroy_session", sessions |-> reg, sessionId |-> k] :
        reg \in ReachableRegistriesAt(SessionTimeout), k \in Tokens \cup {FreshToken}}

\* destroySession(sessionId), and destroySession(sessionId) once more
DestroySession ==
    /\ call.fn = "destroy_session"
    /\ ret = NotReturned
    /\ ret' = Returned([once |-> destroySession(call.sessions, call.sessionId),
                        twice |-> destroySession(
                                      destroySession(call.sessions, call.sessionId),
                                      call.sessionId)])
    /\ UNCHANGED <<call, authVars, dbVars, sqlVars>>

\* ------------------------------------------------------------ the states
DbIdle ==
    /\ reqs = [r \in ReqIds |-> IdleReq]
    /\ clients = << >>

SqlIdle ==
    /\ sqlIn = NoSql
    /\ sqlOut = [status |-> 0, statements |-> << >>]

AuthNext ==
    \/ Tick
    \/ \E u \in Usernames, p \in Passwords : LoginPost(ClientA, u, p)
    \/ \E c \in Cookies, j \in BOOLEAN : Logout(c, j)
    \/ \E c \in Cookies, j \in BOOLEAN : SessionStatus(c, j)
    \/ AuthRouteNotFound

\* the whole application, seen from the auth routes
Init == AuthInit /\ DbIdle /\ SqlIdle /\ CallIdle
Next == AuthNext
Spec == Init /\ [][Next]_vars

\* the database router, entered with a registry that logins have left: no
\* session, or the session of one earlier login
DbInit ==
    /\ entry \in Entries
    /\ now \in {0, MaxTime}
    /\ issued \in {{}, {1}}
    /\ entry = "index" => issued = {}
    /\ sessions \in {<< >>} \cup {[k \in issued |-> newSession(k, AuthUsername, 0)]}
    /\ loginAttempts = << >>
    /\ fails = [c \in Clients |-> << >>]
    /\ windowStart = [c \in Clients |-> 0]
    /\ resp = Response("none", NoCookie, NoCookie, FALSE, NoSubject, 0)
    /\ DbIdle
    /\ SqlIdle
    /\ CallIdle
SpecDb == DbInit /\ [][DbNext]_vars

\* the query builder, request by request
SqlInit ==
    /\ AuthInit
    /\ entry = "server"
    /\ DbIdle
    /\ sqlIn \in SqlInputs
    /\ sqlOut = NotBuilt
    /\ CallIdle
SpecSql == SqlInit /\ [][SqlNext]_vars

\* the helpers and catch blocks, call by call
Calls == CatchCalls \cup RunQueryCalls \cup ListPageCalls \cup RequireAuthCalls
    \cup ExportCsvCalls \cup CreateSessionCalls \cup DestroySessionCalls
CallNext ==
    \/ CatchError
    \/ RunQuery
    \/ ListPage
    \/ RequireAuth
    \/ ExportCsv
    \/ CreateSession
    \/ DestroySession
CallInit ==
    /\ AuthInit
    /\ entry = "server"
    /\ DbIdle
    /\ SqlIdle
    /\ call \in Calls
    /\ ret = NotReturned
SpecCall == CallInit /\ [][CallNext]_vars

\* the login route under requests of two client addresses, in any order: the
\* handler of POST /login holds no await, so each request runs from the read
\* of global.loginAttempts to its response before the next one starts
LoginNext ==
    \/ Tick
    \/ \E ip \in Clients, u \in Usernames, p \in Passwords : LoginPost(ip, u, p)
LoginInit == Init /\ entry = "server"
SpecLogin == LoginInit /\ [][LoginNext]_vars

\* one request to the database router behind the gate, while the clock
\* advances and logouts arrive: every await of its handler lets a logout or
\* a timeout in
FlightReq == CHOOSE r \in ReqIds : \A o \in ReqIds : r <= o
FlightNext ==
    \/ \E shape \in Shapes, c \in Cookies, j \in BOOLEAN : Dispatch(FlightReq, shape, c, j)
    \/ \E ok \in BOOLEAN : ConnectDone(FlightReq, ok)
    \/ \E res \in {"rows", "empty", "error"} : QueryDone(FlightReq, res)
    \/ EndDone(FlightReq)
    \/ Tick
    \/ \E c \in Cookies, j \in BOOLEAN : Logout(c, j)
FlightInit == DbInit /\ entry = "server" /\ now = 0
SpecFlight == FlightInit /\ [][FlightNext]_vars

\* ------------------------------------------------------------- the claims
GateRefusals == {"401", "redirect_login"}

\* C1: the handler of a protected route runs only for a request whose
\* db_session cookie the gate accepted: every request that is past the gate
\* was accepted by requireAuth.
C1_HandlerOnlyBehindGate ==
    \A r \in ReqIds :
        (reqs[r].pc # "idle" /\ reqs[r].kind \notin GateRefusals)
            => reqs[r].gate = "accepted"

\* C2: right after a successful login, validateSession of the token that was
\* set in the cookie returns a session, and its subject is the username that
\* logged in.
C2_LoginThenValidate ==
    [][\A ip \in Clients, u \in Usernames, p \in Passwords :
          LoginSuccess(ip, u, p) =>
              /\ validateSessionResult(sessions', resp'.set, now') # Absent
              /\ validateSessionResult(sessions', resp'.set, now').userId = u]_vars

C2_Witness ==
    /\ resp.kind = "login_ok"
    /\ resp.set \in DOMAIN sessions
    /\ now > SessionTimeout
    /\ Cardinality(DOMAIN sessions) = 1
    /\ Cardinality(issued) = 2

\* C3: expiry slides with the last successful validate: a gate check of a
\* stored session succeeds iff now - lastActivity <= sessionTimeout and then
\* sets lastActivity to now; otherwise the token is refused and evicted.
C3_SlidingExpiry ==
    [][\A c \in Tokens, j \in BOOLEAN :
          (c \in DOMAIN sessions /\ SessionStatus(c, j)) =>
              IF now - sessions[c].lastActivity <= SessionTimeout
              THEN /\ resp'.kind = "session_status"
                   /\ c \in DOMAIN sessions'
                   /\ sessions'[c].lastActivity = now
              ELSE /\ resp'.kind \in GateRefusals
                   /\ c \notin DOMAIN sessions']_vars

C3_Witness ==
    /\ resp.kind = "session_status"
    /\ resp.cookie \in DOMAIN sessions
    /\ sessions[resp.cookie].lastActivity = now
    /\ now - sessions[resp.cookie].createdAt > SessionTimeout

\* C4: after five consecutive failed logins of one client inside the window,
\* its next attempt is blocked whatever the credentials and creates no
\* session; a successful login removes the client's entry, so that its next
\* failure counts as the first.
C4_SixthAttemptBlocked ==
    [][\A ip \in Clients, u \in Usernames, p \in Passwords :
          /\ ( /\ Len(fails[ip]) = MaxAttempts
               /\ now - fails[ip][1] <= LoginWindow
               /\ LoginPost(ip, u, p) )
                => /\ resp'.kind = "login_blocked"
                   /\ sessions' = sessions
                   /\ issued' = issued
          /\ LoginSuccess(ip, u, p) => ip \notin DOMAIN loginAttempts'
          /\ (ip \notin DOMAIN loginAttempts /\ LoginFailure(ip, u, p))
                => loginAttempts'[ip].count = 1]_vars

C4_Witness ==
    /\ resp.kind = "login_blocked"
    /\ Len(fails[ClientA]) = MaxAttempts
    /\ now - fails[ClientA][1] <= LoginWindow
    /\ sessions # << >>

\* C5 as claimed: the window is anchored at its first failure: a failure that
\* comes more than 15 minutes after the window's start sets the count to 1.
C5_WindowAnchoredAtStart ==
    [][\A ip \in Clients, u \in Usernames, p \in Passwords :
          ( /\ ip \in DOMAIN loginAttempts
            /\ now - windowStart[ip] > LoginWindow
            /\ LoginFailure(ip, u, p) )
              => loginAttempts'[ip].count = 1]_vars

\* C5 as amended: the window is anchored at the client's last failure: the
\* stored count is taken as 0 only when more than 15 minutes have passed since
\* lastAttempt, a failure stores count + 1 and lastAttempt = now, and the
\* client is blocked iff count >= 5 and at most 15 minutes have passed since
\* lastAttempt.
C5_WindowAnchoredAtLastFailure ==
    [][\A ip \in Clients, u \in Usernames, p \in Passwords :
          LET a == attemptsOf(loginAttempts, ip)
              stale == now - a.lastAttempt > LoginWindow
          IN /\ LoginBlocked(ip, u, p) <=>
                  ( /\ LoginPost(ip, u, p)
                    /\ a.count >= MaxAttempts
                    /\ ~stale )
             /\ LoginFailure(ip, u, p) =>
                  /\ loginAttempts'[ip].count = IF stale THEN 1 ELSE a.count + 1
                  /\ loginAttempts'[ip].lastAttempt = now]_vars

C5_Witness ==
    /\ ClientA \in DOMAIN loginAttempts
    /\ loginAttempts[ClientA].count >= 3
    /\ loginAttempts[ClientA].lastAttempt - windowStart[ClientA] > LoginWindow
    /\ resp.kind = "login_failed"

\* C6: only issued tokens are ever stored, a token that has left the registry
\* (logged out or evicted as expired) never returns to it, a logout and the
\* detection of an expiry both remove the token, and the gate accepts only a
\* stored token.
C6_TokenLifeIsOneWay ==
    [][/\ DOMAIN sessions' \subseteq issued'
       /\ \A c \in Tokens, j \in BOOLEAN :
            /\ (c \in issued /\ c \notin DOMAIN sessions) => c \notin DOMAIN sessions'
            /\ (Logout(c, j) /\ resp'.kind = "logged_out") => c \notin DOMAIN sessions'
            /\ ( /\ Logout(c, j) \/ SessionStatus(c, j)
                 /\ c \in DOMAIN sessions
                 /\ Expired(sessions[c], now) ) => c \notin DOMAIN sessions'
            /\ ( /\ Logout(c, j) \/ SessionStatus(c, j)
                 /\ resp'.kind \in {"logged_out", "session_status"} )
                  => (c \in DOMAIN sessions /\ c \in issued)]_vars

C6_Witness ==
    /\ resp.kind \in GateRefusals
    /\ resp.cookie \in issued
    /\ resp.cookie \notin DOMAIN sessions
    /\ resp.cleared
    /\ sessions # << >>

\* C7: every string placed between quotes in a built statement, as a table or
\* column name, matches ^[A-Za-z_][A-Za-z0-9_]*$.
C7_NamesInSqlAreIdentifiers ==
    \A i \in 1..Len(sqlOut.statements) :
        \A j \in 1..Len(sqlOut.statements[i].text) :
            sqlOut.statements[i].text[j].k = "name"
                => IsIdentifier(sqlOut.statements[i].text[j].v)

\* C8: a request answered by the gate's 401 or redirect, by the 400 of the
\* table name check or by the 400 of a missing query has created no client,
\* opened no connection and sent no statement.
C8_RefusedBeforeDatabase ==
    \A r \in ReqIds :
        reqs[r].kind \in GateRefusals \cup {"400_invalid_table", "400_missing_query"}
            => (reqs[r].opened = 0 /\ reqs[r].executed = 0 /\ reqs[r].client = 0)

C8_Witness ==
    /\ reqs[1].kind = "400_invalid_table"
    /\ reqs[2].kind \in GateRefusals
    /\ clients = << >>

\* C9: a request that reaches the database has one client of its own, which no
\* other request holds, and when its handler is over that client is closed;
\* with no request in flight, no client is open.
C9_OwnClientAlwaysClosed ==
    /\ \A r \in ReqIds :
          /\ reqs[r].opened = (IF reqs[r].client = 0 THEN 0 ELSE 1)
          /\ reqs[r].executed > 0 => reqs[r].client \in DOMAIN clients
          /\ (reqs[r].pc = "done" /\ reqs[r].client # 0)
                => clients[reqs[r].client] = "closed"
    /\ \A r1, r2 \in ReqIds :
          (r1 # r2 /\ reqs[r1].client # 0) => reqs[r1].client # reqs[r2].client
    /\ (\A r \in ReqIds : reqs[r].pc \in {"idle", "done"})
          => \A c \in DOMAIN clients : clients[c] = "closed"

C9_Witness ==
    /\ reqs[1].pc = "done" /\ reqs[1].kind = "400_no_pk"
    /\ reqs[2].pc = "done" /\ reqs[2].kind = "500_db" /\ reqs[2].executed = 0
    /\ \A c \in DOMAIN clients : clients[c] = "closed"
    /\ Cardinality(DOMAIN clients) = 2

\* C10: a request is answered once at most, and a request whose handling is
\* over has been answered.
C10_ExactlyOneResponse ==
    \A r \in ReqIds :
        /\ reqs[r].sent <= 1
        /\ reqs[r].pc = "done" => reqs[r].sent = 1

\* C11: outside development mode no response to a database failure carries
\* the driver's own message, on any route.
C11_DriverMessageOnlyInDevelopment ==
    (ret.done /\ call.fn = "catch" /\ call.nodeEnv # "development")
        => call.err.message \notin textsOf(ret.value)

\* C12: when the UPDATE or DELETE by primary key comes back with no row, the
\* request is answered 404 'Record not found', once, and not with a 500.
C12_NoRowIsNotFound ==
    [][\A r \in ReqIds :
          ( /\ reqs[r].route \in {"update", "delete"}
            /\ reqs[r].stmt = 2
            /\ QueryDone(r, "empty") )
              => /\ reqs'[r].kind = "404_not_found"
                 /\ reqs'[r].sent = 1]_vars

C12_Witness ==
    \E r \in ReqIds :
        /\ reqs[r].pc = "done"
        /\ reqs[r].kind = "404_not_found"
        /\ reqs[r].executed = 2
        /\ clients[reqs[r].client] = "closed"

\* C13: update and delete address rows only by a column that is by itself the
\* table's primary key: a built UPDATE or DELETE means the key has one column,
\* and a table with no key gets the lookup alone.
C13_RowsAddressedByWholeKey ==
    (sqlOut # NotBuilt /\ sqlIn.op \in {"update", "delete"})
        => /\ Len(sqlOut.statements) = 2 => sqlIn.primaryKey = <<sqlIn.pkColumn>>
           /\ sqlIn.primaryKey = << >> => Len(sqlOut.statements) <= 1

\* C14: an ad-hoc text reaches the database as it was sent whatever the
\* detection finds, and the warnings are in the response of a success and of a
\* failure alike: the destructive one iff the text holds drop table or drop
\* database, the other two iff it holds delete from or update and no where.
C14_WarningsAreAdvisory ==
    (ret.done /\ call.fn = "run_query") =>
        LET t == toLowerCase(call.query)
            w == ret.value.body.warnings
            has(x) == \E i \in 1..Len(w) : w[i] = x
        IN /\ ret.value.sent = call.query
           /\ ret.value.body.http = (IF call.outcome = NoError THEN "200" ELSE "500")
           /\ has(WarnDestructive) <=>
                (includes(t, <<"drop", Blank, "table">>)
                 \/ includes(t, <<"drop", Blank, "database">>))
           /\ has(WarnDelete) <=>
                (includes(t, <<"delete", Blank, "from">>) /\ ~includes(t, <<"where">>))
           /\ has(WarnUpdate) <=> (includes(t, <<"update">>) /\ ~includes(t, <<"where">>))

C14_Witness ==
    /\ ret.done
    /\ call.fn = "run_query"
    /\ call.outcome # NoError
    /\ Len(ret.value.body.warnings) = 3
    /\ ret.value.sent = call.query

\* C15: for a page >= 1 and a limit > 0, each given as a numeral or left out
\* (page 1, limit 100), the last two values bound to the data query are the
\* limit and (page - 1) * limit, behind LIMIT and OFFSET, and totalPages is the
\* least number of pages of that size that hold totalRows rows.
C15_OffsetAndTotalPages ==
    (ret.done /\ call.fn = "list_page") =>
        LET in == call.in
            page == IF in.page = Missing THEN 1 ELSE in.page.numeral
            limit == IF in.limit = Missing THEN 100 ELSE in.limit.numeral
            q == ret.value.data
            n == Len(q.params)
            m == Len(q.text)
            pages == ret.value.pagination.totalPages
        IN ( /\ in.page = Missing \/ "numeral" \in DOMAIN in.page
             /\ in.limit = Missing \/ "numeral" \in DOMAIN in.limit
             /\ page >= 1
             /\ limit > 0 )
            => /\ q.params[n - 1] = Num(limit)
               /\ q.params[n] = Num((page - 1) * limit)
               /\ SubSeq(q.text, m - 3, m) =
                    <<Text(" LIMIT "), Param(n - 1), Text(" OFFSET "), Param(n)>>
               /\ pages.t = "number"
               /\ pages.n * limit >= call.count.numeral
               /\ (pages.n - 1) * limit < call.count.numeral
               /\ ret.value.pagination.limit = Num(limit)
               /\ ret.value.pagination.currentPage = Num(page)

C15_Witness ==
    /\ ret.done
    /\ call.fn = "list_page"
    /\ call.in.page = Numeral(3)
    /\ call.in.limit = Numeral(10)
    /\ call.count = Numeral(21)
    /\ ret.value.data.params = <<Num(10), Num(20)>>
    /\ ret.value.pagination.totalPages = Num(3)

C17_CsvShape ==
    (ret.done /\ call.fn = "export_csv") =>
        LET csv == ret.value
            unquoted(field) ==
                SelectSeq(SubSeq(field, 2, Len(field) - 1), LAMBDA c : c # Quote)
            text(cell) == SelectSeq(stringValue(cell), LAMBDA c : c # Quote)
            quotes(chars) == Len(SelectSeq(chars, LAMBDA c : c = Quote))
            fieldOk(cell, field) ==
                IF cell = Null THEN field = << >>
                ELSE /\ Len(field) >= 2
                     /\ field[1] = Quote
                     /\ field[Len(field)] = Quote
                     /\ unquoted(field) = text(cell)
                     /\ quotes(field) = 2 + 2 * quotes(stringValue(cell))
        IN /\ Len(csv) = 1 + Len(call.rows)
           /\ csv[1] = <<"i", "d", Comma, "n", "a", "m", "e">>
           /\ \A i \in 1..Len(call.rows) :
                \E f1, f2 \in {csvField(c) : c \in CsvCells} :
                    /\ csv[i + 1] = f1 \o <<Comma>> \o f2
                    /\ fieldOk(call.rows[i][1], f1)
                    /\ fieldOk(call.rows[i][2], f2)

\* C18: when createSession returns, the registry holds no session idle for
\* more than the timeout, and holds every session of before that is idle for
\* at most the timeout, unchanged, and the new session, created and last
\* active now.
C18_CreateSessionSweeps ==
    (ret.done /\ call.fn = "create_session") =>
        LET before == call.sessions
            after == ret.value
            t == call.now
        IN /\ \A k \in DOMAIN after : t - after[k].lastActivity <= SessionTimeout
           /\ \A k \in DOMAIN before :
                 t - before[k].lastActivity <= SessionTimeout
                    => (k \in DOMAIN after /\ after[k] = before[k])
           /\ DOMAIN after \subseteq DOMAIN before \cup {call.sessionId}
           /\ call.sessionId \in DOMAIN after
           /\ after[call.sessionId] =
                 [id |-> call.sessionId, userId |-> call.userId, createdAt |-> t,
                  lastActivity |-> t, isValid |-> TRUE]

C18_Witness ==
    /\ ret.done
    /\ call.fn = "create_session"
    /\ DOMAIN call.sessions = Tokens
    /\ Cardinality(DOMAIN ret.value) = 2
    /\ \E k \in DOMAIN ret.value : call.now - ret.value[k].createdAt > SessionTimeout

\* C19: destroySession of a token leaves a registry without that token and
\* with every other session as it was; on a token the registry does not hold
\* it changes nothing, and a second destroySession changes nothing more.
C19_DestroyIsIdempotent ==
    (ret.done /\ call.fn = "destroy_session") =>
        LET reg == call.sessions
            k == call.sessionId
            once == ret.value.once
        IN /\ DOMAIN once = DOMAIN reg \ {k}
           /\ \A o \in DOMAIN once : once[o] = reg[o]
           /\ k \notin DOMAIN reg => once = reg
           /\ ret.value.twice = once

C19_Witness ==
    /\ ret.done
    /\ call.fn = "destroy_session"
    /\ call.sessionId \in DOMAIN call.sessions
    /\ Cardinality(DOMAIN call.sessions) = 2
    /\ Cardinality(DOMAIN ret.value.once) = 1
    /\ ret.value.twice = ret.value.once

\* C20: the count query of the list handler has the WHERE clause of its data
\* query and the same values for it: with a search term and k > 0 text
\* columns, k ILIKE placeholders $1..$k, then LIMIT $k+1 OFFSET $k+2 and k + 2
\* values in the data query, the first k of them the k values of the count
\* query; with no search term or k = 0, no WHERE clause, LIMIT $1 OFFSET $2
\* and a 200.
C20_CountSharesThePredicate ==
    (sqlOut # NotBuilt /\ sqlIn.op = "list" /\ validTableName(sqlIn.tableName)) =>
        LET n == Len(sqlOut.statements)
            data == sqlOut.statements[n - 1]
            count == sqlOut.statements[n]
            k == IF sqlIn.search = Missing THEN 0 ELSE Len(sqlIn.textColumns)
            where == SubSeq(count.text, 3, Len(count.text))
            placeholders(text) == SelectSeq(text, LAMBDA f : f.k = "param")
            m == Len(data.text)
        IN /\ sqlOut.status = 200
           /\ count.text[1] = Text("SELECT COUNT(*) FROM ")
           /\ data.text[1] = Text("SELECT * FROM ")
           /\ count.text[2] = data.text[2]
           /\ SubSeq(data.text, 3, 2 + Len(where)) = where
           /\ (k = 0) <=> (where = << >>)
           /\ placeholders(where) = [i \in 1..k |-> Param(i)]
           /\ Len(SelectSeq(where, LAMBDA f : f = Text("::text ILIKE "))) = k
           /\ SubSeq(data.text, m - 3, m) =
                <<Text(" LIMIT "), Param(k + 1), Text(" OFFSET "), Param(k + 2)>>
           /\ placeholders(data.text) = [i \in 1..(k + 2) |-> Param(i)]
           /\ Len(data.params) = k + 2
           /\ count.params = SubSeq(data.params, 1, k)
           /\ \A i \in 1..k : count.params[i] = [t |-> "string", like |-> sqlIn.search.s]

C20_Witness ==
    /\ sqlOut # NotBuilt
    /\ sqlIn.op = "list"
    /\ sqlIn.search # Missing
    /\ Len(sqlIn.textColumns) = 2
    /\ sqlIn.sortBy # NoName
    /\ Len(sqlOut.statements) = 3
    /\ Len(sqlOut.statements[3].params) = 2
    /\ Len(sqlOut.statements[2].params) = 4

\* C21: the list handler refuses with a 400, and builds no statement for, a
\* request whose sort column fails the identifier check or whose page or limit
\* is given and is not the numeral of a positive integer.
C21_ListValidationRejected ==
    (sqlOut # NotBuilt /\ sqlIn.op = "list" /\ validTableName(sqlIn.tableName)) =>
        LET positive(x) == "numeral" \in DOMAIN x /\ x.numeral >= 1
            badSort == sqlIn.sortBy # NoName /\ ~IsIdentifier(sqlIn.sortBy)
            badPage == sqlIn.page # Missing /\ ~positive(sqlIn.page)
            badLimit == sqlIn.limit # Missing /\ ~positive(sqlIn.limit)
        IN (badSort \/ badPage \/ badLimit)
              => (sqlOut.status = 400 /\ sqlOut.statements = << >>)

\* C22: whatever the order in which the login requests of the clients run,
\* every stored throttle entry has a count from 1 to 5, a client with no entry
\* has no failed login since its last successful one, and the failed logins
\* of a client that all lie inside one window are all counted: the stored
\* count is their number.
C22_NoFailedLoginLost ==
    \A ip \in Clients :
        IF ip \in DOMAIN loginAttempts
        THEN /\ loginAttempts[ip].count \in 1..MaxAttempts
             /\ loginAttempts[ip].lastAttempt - windowStart[ip] <= LoginWindow
                   => loginAttempts[ip].count = Len(fails[ip])
        ELSE fails[ip] = << >>

C22_Witness ==
    /\ DOMAIN loginAttempts = Clients
    /\ loginAttempts[ClientA].count = MaxAttempts
    /\ loginAttempts[ClientB].count = 3
    /\ Len(fails[ClientB]) = 3
    /\ Len(fails[ClientA]) = MaxAttempts
    /\ fails[ClientA][1] < fails[ClientB][1]
    /\ fails[ClientB][3] <= fails[ClientA][MaxAttempts]

\* C23: a login attempt answered as blocked leaves the throttle map, the
\* session registry and the issued tokens as they were; and an attempt of a
\* client made more than 15 minutes after its last failed login is not
\* answered as blocked, however many blocked attempts it made in between.
C23_BlockedAttemptChangesNothing ==
    [][\A ip \in Clients, u \in Usernames, p \in Passwords :
          /\ (LoginPost(ip, u, p) /\ resp'.kind = "login_blocked")
                => /\ loginAttempts' = loginAttempts
                   /\ sessions' = sessions
                   /\ issued' = issued
          /\ ( /\ fails[ip] # << >>
               /\ now - fails[ip][Len(fails[ip])] > LoginWindow
               /\ LoginPost(ip, u, p) )
                => resp'.kind \in {"login_ok", "login_failed"}]_vars

C23_Witness ==
    /\ resp.kind = "login_blocked"
    /\ DOMAIN loginAttempts = {ClientA}
    /\ loginAttempts[ClientA].count = MaxAttempts
    /\ now = loginAttempts[ClientA].lastAttempt + LoginWindow
    /\ sessions # << >>

\* C24: a login attempt of one client address, whether it fails, succeeds or
\* is blocked, leaves every other client address with the entry it had, or
\* with none as before, and blocked or not as before.
C24_ThrottlePerClient ==
    [][\A ip \in Clients, u \in Usernames, p \in Passwords :
          LoginPost(ip, u, p) =>
              \A o \in Clients \ {ip} :
                  /\ (o \in DOMAIN loginAttempts') = (o \in DOMAIN loginAttempts)
                  /\ o \in DOMAIN loginAttempts => loginAttempts'[o] = loginAttempts[o]
                  /\ ( /\ attemptsOf(loginAttempts', o).count >= MaxAttempts
                       /\ now' - attemptsOf(loginAttempts', o).lastAttempt <= LoginWindow )
                     = ( /\ attemptsOf(loginAttempts, o).count >= MaxAttempts
                         /\ now - attemptsOf(loginAttempts, o).lastAttempt <= LoginWindow )]_vars

C24_Witness ==
    /\ resp.kind = "login_ok"
    /\ DOMAIN loginAttempts = {ClientB}
    /\ loginAttempts[ClientB].count = MaxAttempts
    /\ now - loginAttempts[ClientB].lastAttempt <= LoginWindow
    /\ \E k \in DOMAIN sessions : sessions[k].createdAt > loginAttempts[ClientB].lastAttempt

\* C25: a request the gate accepted is never answered with the gate's refusal;
\* a logout and the passing of time change no request and no client; and a
\* database answer that arrives when the request's session is gone from the
\* registry, or idle for more than the timeout, is handled as any other: the
\* last answer with rows gives the 200.
C25_GateCheckedOnce ==
    [][/\ \A r \in ReqIds :
             /\ reqs'[r].gate = "accepted" => reqs'[r].kind \notin GateRefusals
             /\ \A res \in {"rows", "empty", "error"} :
                   ( /\ QueryDone(r, res)
                     /\ \/ reqs[r].cookie \notin DOMAIN sessions
                        \/ Expired(sessions[reqs[r].cookie], now) )
                     => /\ reqs'[r] = afterQuery(reqs[r], res)
                        /\ ( /\ res = "rows"
                             /\ reqs[r].stmt = StmtCount(reqs[r])
                             /\ reqs[r].route \notin {"root", "view"} )
                              => (reqs'[r].kind = "200" /\ reqs'[r].sent = 1)
       /\ (Tick \/ \E c \in Cookies, j \in BOOLEAN : Logout(c, j))
             => (reqs' = reqs /\ clients' = clients)]_vars

C25_Witness ==
    /\ reqs[FlightReq].pc = "ending"
    /\ reqs[FlightReq].gate = "accepted"
    /\ reqs[FlightReq].kind = "200"
    /\ reqs[FlightReq].executed = 2
    /\ resp.kind = "logged_out"
    /\ resp.cookie = reqs[FlightReq].cookie
    /\ reqs[FlightReq].cookie \notin DOMAIN sessions
    /\ now > SessionTimeout

\* C26: whatever logins, logouts and expiries came before, the session that
\* GET /session-status reads once the gate accepted the token is in the
\* registry, last active now, and the expiresAt it reports is that
\* lastActivity plus the timeout; the session POST /logout destroys once the
\* gate accepted the token was in the registry, and is in it no more.
C26_HandlerFindsItsSession ==
    [][\A c \in Cookies, j \in BOOLEAN :
          /\ (SessionStatus(c, j) /\ resp'.kind = "session_status")
                => /\ c \in DOMAIN sessions
                   /\ c \in DOMAIN sessions'
                   /\ sessions'[c].lastActivity = now
                   /\ resp'.expiresAt = sessions'[c].lastActivity + SessionTimeout
                   /\ resp'.subject = sessions'[c].userId
          /\ (Logout(c, j) /\ resp'.kind = "logged_out")
                => /\ c \in DOMAIN sessions
                   /\ c \notin DOMAIN sessions'
                   /\ resp'.subject = sessions[c].userId
                   /\ \A o \in DOMAIN sessions \ {c} :
                         o \in DOMAIN sessions' /\ sessions'[o] = sessions[o]]_vars

C26_Witness ==
    /\ resp.kind = "session_status"
    /\ resp.expiresAt = now + SessionTimeout
    /\ sessions[resp.cookie].createdAt = 0
    /\ now = SessionTimeout
    /\ issued = Tokens
    /\ DOMAIN sessions = {resp.cookie}

====
